---- MODULE Spec2Model ----
(***************************************************************************)
(* Model of src/src/asrime.cpp: the ASRNativeEngine Fcitx5 addon.          *)
(*                                                                         *)
(* The engine reads recognised text from the commit FIFO (text-in), splits *)
(* it into lines and commits them to the active input context; key presses *)
(* send "toggle\n" / "command\n" to the command FIFO (command-out).        *)
(*                                                                         *)
(* Bytes are modelled by their character codes, strings by sequences of    *)
(* bytes, an input context pointer by a number (0 is nullptr).             *)
(***************************************************************************)
EXTENDS Integers, Sequences, FiniteSets, TLC

(* ------------------------------ bounds -------------------------------- *)

\* Number of bytes the daemon writes to the commit FIFO in one behaviour
\* of the specification of the lines.
MaxText == 5

\* Number of bytes the daemon writes to the commit FIFO in one behaviour
\* of the fair specification.
MaxLive == 3

\* Number of lines of hotkeys.conf.
MaxLines == 3

\* Number of commit FIFO descriptors the process may hold before no further
\* engine is constructed.
MaxFds == 2

\* Number of bytes the daemon writes to the commit FIFO in one behaviour.
MaxBytes == 4

\* Capacity in bytes of the command FIFO's kernel buffer (65536 on Linux,
\* scaled down so that two unread commands fill it).
PipeCap == 15

(* ------------------------- program constants -------------------------- *)

\* '\n', the line terminator searched for in pending_.
NL == 10

\* '\r', stripped once from the end of a line.
CR == 13

\* sizeof(buf), the scratch buffer of one read.
BufSize == 4096

\* Payload bytes the daemon writes besides CR and NL ('a', 'b').
Payload == {97, 98}

Bytes == Payload \cup {CR, NL}

\* nullptr for activeIC_.
NullIC == 0

\* The input contexts of the host, as the values of their pointers.
Contexts == {1, 2}

(* ------------------------------- state -------------------------------- *)

VARIABLES
    activeIC,     \* activeIC_: the active input context, NullIC when none
    pending,      \* pending_: bytes read and not yet split into lines
    commitFifo,   \* bytes in the kernel buffer of the commit FIFO, unread
    pcR,          \* position of onCommitReadable: idle, drain, split, commit
    rdLine,       \* commitLine's argument text while pcR = "commit"
    rdIC,         \* commitLine's local ic while pcR = "commit"
    commits,      \* history: calls of ic->commitString(text), in order
    dropped,      \* history: non-empty lines commitLine returned on with no ic
    received,     \* history: every byte read from the commit FIFO, in order
    lineNo,       \* history: number of lines extracted from pending_ so far
    joined,       \* history: a read appended to a partial line in pending_
    noTarget,     \* history: the split loop ran while activeIC_ was nullptr
    toggleKeys,   \* toggleKeys_: the shortcut table, fixed at construction
    cmdReader,    \* the daemon holds the command FIFO open for reading
    cmdPipe,      \* bytes in the kernel buffer of the command FIFO, unread
    cmdFds,       \* number of command FIFO descriptors the engine holds open
    lastKey,      \* observation of the last keyEvent call and of its sends
    lastSet,      \* history: context of the last activate or key press
    lostSince,    \* history: contexts deactivated after that event
    fs,           \* the kind of filesystem entry at each FIFO path
    pcC,          \* position of the constructor / life cycle of the engine
    ePath,        \* the argument of the ensureFifo call in progress
    ePc,          \* position inside ensureFifo: stat, unlink, mkfifo
    eObs,         \* history: what the ensureFifo call in progress has done
    lastEnsure,   \* history: the last ensureFifo call that returned
    okSince,      \* history: per path, ensureFifo returned true and no
                  \* other process has changed the entry since
    commitFd,     \* commitFd_ is an open descriptor
    commitFds,    \* number of commit FIFO descriptors the process holds open
    commitEvent,  \* commitEvent_ is a registered, enabled IO event source
    conf,         \* the environment of loadHotkeys: path, file, its lines
    commitWriter, \* the daemon holds the commit FIFO open for writing
    resumed,      \* history: the daemon re-attached to the commit FIFO
                  \* with a line half written
    readFailed    \* history: the drain loop of the invocation in progress
                  \* ended on a read error

lineVars == <<pending, commitFifo, pcR, rdLine, rdIC, commits, dropped,
              received, lineNo, joined, noTarget, readFailed>>

cmdVars == <<toggleKeys, cmdReader, cmdPipe, cmdFds, lastKey>>

focusVars == <<activeIC, lastSet, lostSince>>

ctorVars == <<fs, pcC, ePath, ePc, eObs, lastEnsure, okSince, commitFd>>

hostVars == <<commitFds, commitEvent, conf, commitWriter, resumed>>

vars == <<focusVars, lineVars, cmdVars, ctorVars, hostVars>>

(* ------------------------- string operations -------------------------- *)

Min(a, b) == IF a < b THEN a ELSE b

\* std::string::find('\n'): the index of the first NL, 0 for npos.
FindNL(s) ==
    IF \E i \in 1..Len(s) : s[i] = NL
    THEN CHOOSE i \in 1..Len(s) : s[i] = NL /\ \A j \in 1..(i - 1) : s[j] # NL
    ELSE 0

\* pending_.substr(0, pos) for the 1-based index pos of the newline.
LineBefore(s, pos) == SubSeq(s, 1, pos - 1)

\* pending_.erase(0, pos + 1) for the 1-based index pos of the newline.
EraseThrough(s, pos) == SubSeq(s, pos + 1, Len(s))

\* Mutant of StripCR: every trailing carriage return is removed.
StripCRAll(line) ==
    LET keep == {i \in 1..Len(line) : line[i] # CR}
        last == IF keep = {} THEN 0
                ELSE CHOOSE i \in keep : \A j \in keep : j <= i
    IN  SubSeq(line, 1, last)

\* if (!line.empty() && line.back() == '\r') line.pop_back();
StripCR(line) ==
    IF line # <<>> /\ line[Len(line)] = CR
    THEN SubSeq(line, 1, Len(line) - 1)
    ELSE line

(* ------------------------------- keys --------------------------------- *)

\* A fcitx::Key is a key symbol and a set of modifier states.
Key(sym, states) == [sym |-> sym, states |-> states]

KeyShiftF8 == Key("F8", {"Shift"})
KeyF8 == Key("F8", {})
KeyCtrlAltV == Key("v", {"Control", "Alt"})
KeyCtrlAltR == Key("r", {"Control", "Alt"})
KeyF9 == Key("F9", {})

\* Key events as the host delivers them: NumLock (Mod2) may be on.
KeyShiftF8Num == Key("F8", {"Shift", "Mod2"})
KeyA == Key("a", {})

\* The modifier states Key::normalize and Key::check keep.
KeptStates == {"Control", "Alt", "Shift", "Super", "Mod3"}

LowerSyms == {"a", "r", "v"}

UpperSyms == {"A", "R", "V"}

UpperOf(sym) ==
    CASE sym = "a" -> "A"
      [] sym = "r" -> "R"
      [] sym = "v" -> "V"
      [] OTHER -> sym

\* keyEvent.key().normalize(): lock modifiers are masked; with a modifier
\* other than Shift alone a lower-case letter becomes upper case; Shift alone
\* on a letter is dropped. (The symbols used here are letters and function
\* keys; the function keys keep Shift.)
normalize(k) ==
    LET st  == k.states \cap KeptStates
        sym == IF st # {} /\ st # {"Shift"} /\ k.sym \in LowerSyms
               THEN UpperOf(k.sym) ELSE k.sym
        st2 == IF st = {"Shift"} /\ sym \in LowerSyms \cup UpperSyms
               THEN {} ELSE st
    IN  Key(sym, st2)

\* k.check(other): same symbol, same kept states.
check(k, other) ==
    /\ other.sym = k.sym
    /\ other.states = k.states \cap KeptStates

\* k.checkKeyList(list): some entry of the list matches.
checkKeyList(k, list) == \E i \in 1..Len(list) : check(k, list[i])

\* defaultHotkeys (52-59)
defaultHotkeys == <<KeyCtrlAltV, KeyCtrlAltR, KeyF8, KeyShiftF8>>

\* "toggle\n"
CmdToggle == <<116, 111, 103, 103, 108, 101, NL>>

\* "command\n"
CmdCommand == <<99, 111, 109, 109, 97, 110, 100, NL>>

(* ------------------------- loadHotkeys (35-89) ------------------------ *)

\* ' ', and '#', the first character of a comment line.
SP == 32

HASH == 35

\* std::isspace in the "C" locale: space, \t, \n, \v, \f, \r.
IsSpace(c) == c = SP \/ c \in 9..13

\* trim (35-40): leading, then trailing white space is erased.
trim(s) ==
    LET notSpace == {i \in 1..Len(s) : ~IsSpace(s[i])}
        first == IF notSpace = {} THEN Len(s) + 1
                 ELSE CHOOSE i \in notSpace : \A j \in notSpace : i <= j
        rest  == SubSeq(s, first, Len(s))
        keep  == {i \in 1..Len(rest) : ~IsSpace(rest[i])}
        last  == IF keep = {} THEN 0
                 ELSE CHOOSE i \in keep : \A j \in keep : j <= i
    IN  SubSeq(rest, 1, last)

\* Key descriptors, as the characters of the file: "F8", "F9", "Shift+F8",
\* "Control+Alt+v", "Control+Alt+r".
StrF8 == <<70, 56>>

StrF9 == <<70, 57>>

StrShiftF8 == <<83, 104, 105, 102, 116, 43, 70, 56>>

StrCtrlAltV == <<67, 111, 110, 116, 114, 111, 108, 43, 65, 108, 116, 43, 118>>

StrCtrlAltR == <<67, 111, 110, 116, 114, 111, 108, 43, 65, 108, 116, 43, 114>>

\* The key a string that names no key parses to (FcitxKey_None).
KeyNone == Key("None", {})

\* fcitx::Key(line): the modifiers and the symbol the descriptor names; the
\* symbol is None when the string names no key.
ParseKey(s) ==
    CASE s = StrF8 -> KeyF8
      [] s = StrF9 -> KeyF9
      [] s = StrShiftF8 -> KeyShiftF8
      [] s = StrCtrlAltV -> KeyCtrlAltV
      [] s = StrCtrlAltR -> KeyCtrlAltR
      [] OTHER -> KeyNone

\* key.isValid()
isValid(k) == k.sym # "None"

\* The values of an environment variable that getenv and the test
\* (xdg && *xdg) tell apart.
EnvVals == {"unset", "empty", "set"}

\* The two places hotkeys.conf is looked for.
Locs == {"xdg", "home"}

NoConfPath == "nopath"

\* hotkeyConfigPath (42-50): $XDG_CONFIG_HOME when set and not empty, else
\* $HOME when set and not empty, else the empty path.
hotkeyConfigPath(cf) ==
    IF cf.xdg = "set" THEN "xdg"
    ELSE IF cf.home = "set" THEN "home"
    ELSE NoConfPath

\* Mutant of LoadLine: a malformed descriptor is kept.
LoadLineKeepInvalid(keys, raw) ==
    LET line == trim(raw)
    IN  IF line = <<>> \/ line[1] = HASH THEN keys
        ELSE Append(keys, ParseKey(line))

\* One iteration of the getline loop (75-84).
LoadLine(keys, raw) ==
    LET line == trim(raw)
    IN  IF line = <<>> \/ line[1] = HASH THEN keys
        ELSE LET key == ParseKey(line)
             IN  IF isValid(key) THEN Append(keys, key) ELSE keys

RECURSIVE LoadLines(_, _)

\* The getline loop over the lines of the file.
LoadLines(keys, lines) ==
    IF lines = <<>> THEN keys
    ELSE LoadLines(LoadLine(keys, Head(lines)), Tail(lines))

\* loadHotkeys (61-89). cf.at: the places where hotkeys.conf can be opened.
loadHotkeys(cf) ==
    LET path == hotkeyConfigPath(cf)
    IN  IF path = NoConfPath THEN defaultHotkeys
        ELSE IF path \notin cf.at THEN defaultHotkeys
        ELSE LET keys == LoadLines(<<>>, cf.lines)
             IN  IF keys # <<>> THEN keys ELSE defaultHotkeys

(* -------------------------- sendCommand (226-238) --------------------- *)

\* ::open(kCmdFifo, O_WRONLY | O_NONBLOCK): fails (ENXIO) with no reader.
OpenCmdFifo(reader) == reader

\* ::write(fd, cmd, len) on the FIFO: EPIPE when the reader is gone (the
\* host is taken to ignore SIGPIPE, so the call returns -1), EAGAIN when len
\* bytes do not fit (len <= PIPE_BUF: the write is atomic), else all len
\* bytes are appended.
WriteFifo(pipe, bytes, readerNow) ==
    IF ~readerNow THEN [n |-> -1, pipe |-> pipe]
    ELSE IF Len(pipe) + Len(bytes) > PipeCap THEN [n |-> -1, pipe |-> pipe]
    ELSE [n |-> Len(bytes), pipe |-> pipe \o bytes]

\* Mutant of SendCommand: the function returns after the warning of a
\* failed write, without closing the descriptor.
SendCommandNoClose(cmd, reader, stays, pipe) ==
    IF ~OpenCmdFifo(reader)
    THEN [cmd |-> cmd, opened |-> FALSE, writes |-> 0, written |-> 0,
          pipe |-> pipe, fdLeft |-> 0]
    ELSE LET w == WriteFifo(pipe, cmd, stays)
         IN  [cmd |-> cmd, opened |-> TRUE, writes |-> 1, written |-> w.n,
              pipe |-> w.pipe, fdLeft |-> IF w.n < 0 THEN 1 ELSE 0]

\* Mutant of SendCommand: the token and its terminating newline are written
\* by two writes.
SendCommandTwoWrites(cmd, reader, stays, pipe) ==
    IF ~OpenCmdFifo(reader)
    THEN [cmd |-> cmd, opened |-> FALSE, writes |-> 0, written |-> 0,
          pipe |-> pipe, fdLeft |-> 0]
    ELSE LET body == SubSeq(cmd, 1, Len(cmd) - 1)
             w1   == WriteFifo(pipe, body, stays)
             w2   == WriteFifo(w1.pipe, <<NL>>, stays)
         IN  [cmd |-> cmd, opened |-> TRUE, writes |-> 2,
              written |-> IF w1.n < 0 \/ w2.n < 0 THEN -1 ELSE w1.n + w2.n,
              pipe |-> w2.pipe, fdLeft |-> 0]

\* sendCommand(cmd). reader: the daemon has the FIFO open when the engine
\* opens it; stays: it still has when the engine writes. The result is the
\* observation of the call: opens and writes issued, the value of written,
\* the FIFO buffer afterwards, and the descriptors left open on return.
SendCommand(cmd, reader, stays, pipe) ==
    IF ~OpenCmdFifo(reader)
    THEN [cmd |-> cmd, opened |-> FALSE, writes |-> 0, written |-> 0,
          pipe |-> pipe, fdLeft |-> 0]
    ELSE LET w == WriteFifo(pipe, cmd, stays)
         IN  [cmd |-> cmd, opened |-> TRUE, writes |-> 1, written |-> w.n,
              pipe |-> w.pipe, fdLeft |-> 0]

(* ---------------------------- keyEvent (155-178) ---------------------- *)

\* What the command FIFO holds after the sends of one key event.
PipeAfter(sends, pipe) ==
    IF sends = <<>> THEN pipe ELSE sends[Len(sends)].pipe

\* Mutant of PressOutcome: the toggle list is checked before Shift+F8, and
\* the key is accepted only when the command could be written.
PressOutcomeToggleFirst(k, table, reader, stays, pipe) ==
    IF checkKeyList(normalize(k), table)
    THEN LET s == SendCommand(CmdToggle, reader, stays, pipe)
         IN  [accepted |-> s.written > 0, sends |-> <<s>>]
    ELSE IF check(normalize(k), KeyShiftF8)
    THEN LET s == SendCommand(CmdCommand, reader, stays, pipe)
         IN  [accepted |-> s.written > 0, sends |-> <<s>>]
    ELSE [accepted |-> FALSE, sends |-> <<>>]

\* Mutant of KeyOutcome: a release is handled like a press.
KeyOutcomeAnyEdge(k, release, table, reader, stays, pipe) ==
    [setTarget |-> TRUE,
     accepted |-> check(normalize(k), KeyShiftF8) \/ checkKeyList(normalize(k), table),
     sends |-> IF check(normalize(k), KeyShiftF8)
               THEN <<SendCommand(CmdCommand, reader, stays, pipe)>>
               ELSE IF checkKeyList(normalize(k), table)
               THEN <<SendCommand(CmdToggle, reader, stays, pipe)>>
               ELSE <<>>]

\* Mutant of PressOutcome: the toggle list is consulted after the command
\* has been sent too.
PressOutcomeBoth(k, table, reader, stays, pipe) ==
    LET first == IF check(normalize(k), KeyShiftF8)
                 THEN <<SendCommand(CmdCommand, reader, stays, pipe)>>
                 ELSE <<>>
        then  == IF checkKeyList(normalize(k), table)
                 THEN <<SendCommand(CmdToggle, reader, stays,
                                    PipeAfter(first, pipe))>>
                 ELSE <<>>
    IN  [accepted |-> first \o then # <<>>, sends |-> first \o then]

\* The sends and the accept decision of keyEvent for a key press.
\* Shift+F8 is checked first, then the toggle list.
PressOutcome(k, table, reader, stays, pipe) ==
    IF check(normalize(k), KeyShiftF8)
    THEN [accepted |-> TRUE,
          sends |-> <<SendCommand(CmdCommand, reader, stays, pipe)>>]
    ELSE IF checkKeyList(normalize(k), table)
    THEN [accepted |-> TRUE,
          sends |-> <<SendCommand(CmdToggle, reader, stays, pipe)>>]
    ELSE [accepted |-> FALSE, sends |-> <<>>]

\* keyEvent: a release returns at once; a press sets activeIC_ and matches.
KeyOutcome(k, release, table, reader, stays, pipe) ==
    IF release
    THEN [setTarget |-> FALSE, accepted |-> FALSE, sends |-> <<>>]
    ELSE [setTarget |-> TRUE] @@ PressOutcome(k, table, reader, stays, pipe)

FdsAfter(sends) ==
    IF sends = <<>> THEN 0 ELSE sends[Len(sends)].fdLeft

\* What of a send the caller and the daemon can observe.
SendView(s) == [cmd |-> s.cmd, opened |-> s.opened, writes |-> s.writes,
                written |-> s.written]

\* Mutant of DeactivateTarget: the target is cleared whatever the context.
DeactivateAny(cur, c) == NullIC

\* deactivate: the new value of activeIC_.
DeactivateTarget(cur, c) == IF cur = c THEN NullIC ELSE cur

(* ----------------------- onCommitReadable (181-209) ------------------- *)

\* The event loop dispatches one handler at a time.
LoopFree == pcR = "idle"

\* The event loop invokes the IO callback (In, Err or Hup on commitFd_) of
\* the registered event source.
CommitReadable ==
    /\ LoopFree
    /\ commitEvent
    /\ pcR' = "drain"
    /\ UNCHANGED <<readFailed, hostVars, ctorVars, focusVars, cmdVars, pending, commitFifo, rdLine, rdIC,
                   commits, dropped, received, lineNo, joined, noTarget>>

\* n = ::read(fd, buf, sizeof(buf)) with n > 0: append and continue.
ReadData ==
    /\ pcR = "drain"
    /\ commitFifo # <<>>
    /\ \E n \in 1..Min(Len(commitFifo), BufSize) :
          /\ pending' = pending \o SubSeq(commitFifo, 1, n)
          /\ received' = received \o SubSeq(commitFifo, 1, n)
          /\ commitFifo' = SubSeq(commitFifo, n + 1, Len(commitFifo))
    /\ joined' = (joined \/ (pending # <<>> /\ pending[Len(pending)] # NL))
    /\ UNCHANGED <<readFailed, hostVars, ctorVars, focusVars, cmdVars, pcR, rdLine, rdIC, commits, dropped,
                   lineNo, noTarget>>

\* n == 0, or n < 0 with errno EAGAIN / EWOULDBLOCK: break.
ReadNoData ==
    /\ pcR = "drain"
    /\ commitFifo = <<>>
    /\ pcR' = "split"
    /\ readFailed' = FALSE
    /\ UNCHANGED <<hostVars, ctorVars, focusVars, cmdVars, pending, commitFifo, rdLine, rdIC,
                   commits, dropped, received, lineNo, joined, noTarget>>

\* Mutant of ReadError: the buffer is cleared on a read error.
ReadErrorLose ==
    /\ pcR = "drain"
    /\ pcR' = "split"
    /\ readFailed' = TRUE
    /\ pending' = <<>>
    /\ UNCHANGED <<hostVars, ctorVars, focusVars, cmdVars, commitFifo, rdLine,
                   rdIC, commits, dropped, received, lineNo, joined, noTarget>>

\* n < 0 with any other errno: warn and break; nothing is consumed.
ReadError ==
    /\ pcR = "drain"
    /\ pcR' = "split"
    /\ readFailed' = TRUE
    /\ UNCHANGED <<hostVars, ctorVars, focusVars, cmdVars, pending, commitFifo, rdLine, rdIC,
                   commits, dropped, received, lineNo, joined, noTarget>>

\* std::string line = pending_.substr(0, pos); strip one trailing CR.
ExtractLine(p) == StripCR(LineBefore(p, FindNL(p)))

\* Mutant of AfterExtract: the buffer is cleared once a line is taken.
AfterExtractClear(p) == <<>>

\* What pending_ holds after one iteration of the split loop.
AfterExtract(p) == EraseThrough(p, FindNL(p))

\* Mutant of CommitDecision: an empty text is committed like any other.
CommitDecisionNoSkip(text, ic) ==
    IF ic = NullIC THEN "drop" ELSE "commit"

\* commitLine (211-224) up to its read of activeIC_: "skip" for an empty
\* text, "drop" when no context is active, else "commit".
CommitDecision(text, ic) ==
    IF text = <<>> THEN "skip"
    ELSE IF ic = NullIC THEN "drop"
    ELSE "commit"

\* Mutant of SplitLine: with no target the line is left in pending_ to be
\* retried, and the handler returns.
SplitLineRetry ==
    /\ pcR = "split"
    /\ FindNL(pending) # 0
    /\ LET line == ExtractLine(pending)
           what == CommitDecision(line, activeIC)
       IN  /\ pending' = IF what = "drop" THEN pending ELSE AfterExtract(pending)
           /\ lineNo' = IF what = "drop" THEN lineNo ELSE lineNo + 1
           /\ dropped' = IF what = "drop"
                         THEN Append(dropped, [text |-> line, ord |-> lineNo + 1])
                         ELSE dropped
           /\ IF what = "commit"
              THEN /\ pcR' = "commit"
                   /\ rdLine' = line
                   /\ rdIC' = activeIC
              ELSE /\ pcR' = IF what = "drop" THEN "idle" ELSE pcR
                   /\ UNCHANGED <<rdLine, rdIC>>
    /\ noTarget' = (noTarget \/ activeIC = NullIC)
    /\ Len(dropped) < MaxBytes
    /\ UNCHANGED <<readFailed, hostVars, ctorVars, focusVars, cmdVars, commitFifo, commits, received, joined>>

\* One iteration of the split loop, up to commitLine's read of activeIC_.
SplitLine ==
    /\ pcR = "split"
    /\ FindNL(pending) # 0
    /\ LET line == ExtractLine(pending)
           what == CommitDecision(line, activeIC)
       IN  /\ pending' = AfterExtract(pending)
           /\ lineNo' = lineNo + 1
           /\ dropped' = IF what = "drop"
                         THEN Append(dropped, [text |-> line, ord |-> lineNo + 1])
                         ELSE dropped
           /\ IF what = "commit"
              THEN /\ pcR' = "commit"
                   /\ rdLine' = line
                   /\ rdIC' = activeIC
              ELSE UNCHANGED <<pcR, rdLine, rdIC>>
    /\ noTarget' = (noTarget \/ activeIC = NullIC)
    /\ UNCHANGED <<readFailed, hostVars, ctorVars, focusVars, cmdVars, commitFifo, commits, received, joined>>

\* ic->commitString(text), then back to the loop condition.
CommitString ==
    /\ pcR = "commit"
    /\ commits' = Append(commits, [ic |-> rdIC, text |-> rdLine, ord |-> lineNo])
    /\ pcR' = "split"
    /\ rdLine' = <<>>
    /\ rdIC' = NullIC
    /\ UNCHANGED <<readFailed, hostVars, ctorVars, focusVars, cmdVars, pending, commitFifo, dropped, received,
                   lineNo, joined, noTarget>>

\* Mutant of HandlerReturn: what is left in pending_ is committed as a line.
HandlerReturnFlush ==
    /\ pcR = "split"
    /\ FindNL(pending) = 0
    /\ pcR' = "idle"
    /\ pending' = <<>>
    /\ commits' = IF pending # <<>> /\ activeIC # NullIC
                  THEN Append(commits, [ic |-> activeIC, text |-> pending,
                                        ord |-> lineNo + 1])
                  ELSE commits
    /\ readFailed' = FALSE
    /\ UNCHANGED <<hostVars, ctorVars, focusVars, cmdVars, commitFifo, rdLine, rdIC, dropped,
                   received, lineNo, joined, noTarget>>

\* Mutant of StaysRegistered: the callback returns false and the event
\* source is disabled.
StaysRegisteredNever(registered, result) == FALSE

\* What the event loop does with the callback's result: the event source
\* stays enabled when the callback returns true.
StaysRegistered(registered, result) == registered /\ result

\* pending_.find('\n') == npos: return true.
HandlerReturn ==
    /\ pcR = "split"
    /\ FindNL(pending) = 0
    /\ pcR' = "idle"
    /\ commitEvent' = StaysRegistered(commitEvent, TRUE)
    /\ readFailed' = FALSE
    /\ UNCHANGED <<commitFds, conf, commitWriter, resumed, ctorVars, focusVars, cmdVars,
                   pending, commitFifo, rdLine, rdIC, commits, dropped,
                   received, lineNo, joined, noTarget>>

(* ------------------------------ daemon -------------------------------- *)

\* The recognition daemon writes one more byte to the commit FIFO.
DaemonWrite ==
    /\ commitWriter
    /\ Len(received) + Len(commitFifo) < MaxBytes
    /\ \E b \in Bytes : commitFifo' = Append(commitFifo, b)
    /\ UNCHANGED <<readFailed, hostVars, ctorVars, focusVars, cmdVars, pending, pcR, rdLine, rdIC, commits,
                   dropped, received, lineNo, joined, noTarget>>

\* The daemon writes one more byte of a text of up to MaxText bytes.
DaemonWriteText ==
    /\ commitWriter
    /\ Len(received) + Len(commitFifo) < MaxText
    /\ \E b \in Bytes : commitFifo' = Append(commitFifo, b)
    /\ UNCHANGED <<readFailed, hostVars, ctorVars, focusVars, cmdVars, pending,
                   pcR, rdLine, rdIC, commits, dropped, received, lineNo,
                   joined, noTarget>>

\* The daemon writes one more byte of a text of up to MaxLive bytes.
DaemonWriteLive ==
    /\ commitWriter
    /\ Len(received) + Len(commitFifo) < MaxLive
    /\ \E b \in Bytes : commitFifo' = Append(commitFifo, b)
    /\ UNCHANGED <<readFailed, hostVars, ctorVars, focusVars, cmdVars, pending,
                   pcR, rdLine, rdIC, commits, dropped, received, lineNo,
                   joined, noTarget>>

\* What the kernel keeps of a FIFO's buffer when the daemon closes it: all
\* of it while the engine holds the FIFO open (O_RDWR, line 113), nothing
\* once no descriptor is left.
FifoKept(buf, held) == IF held THEN buf ELSE <<>>

\* The daemon closes the commit FIFO (it exits, or is restarted).
DaemonDetachCommit ==
    /\ commitWriter
    /\ commitWriter' = FALSE
    /\ commitFifo' = FifoKept(commitFifo, commitFd)
    /\ UNCHANGED <<commitFds, commitEvent, conf, resumed, readFailed, ctorVars,
                   focusVars, cmdVars, pending, pcR, rdLine, rdIC, commits,
                   dropped, received, lineNo, joined, noTarget>>

\* The daemon opens the commit FIFO for writing again.
DaemonAttachCommit ==
    /\ ~commitWriter
    /\ commitWriter' = TRUE
    /\ resumed' = (resumed \/ LET w == received \o commitFifo
                              IN  w # <<>> /\ w[Len(w)] # NL)
    /\ UNCHANGED <<commitFds, commitEvent, conf, lineVars, ctorVars,
                   focusVars, cmdVars>>

\* The daemon opens the command FIFO for reading.
DaemonAttach ==
    /\ ~cmdReader
    /\ cmdReader' = TRUE
    /\ UNCHANGED <<hostVars, ctorVars, focusVars, lineVars, toggleKeys, cmdPipe, cmdFds, lastKey>>

\* The daemon closes the command FIFO; with no descriptor left open the
\* kernel frees what was buffered.
DaemonDetach ==
    /\ cmdReader
    /\ cmdReader' = FALSE
    /\ cmdPipe' = <<>>
    /\ UNCHANGED <<hostVars, ctorVars, focusVars, lineVars, toggleKeys, cmdFds, lastKey>>

\* The daemon reads some of the buffered command bytes.
DaemonReadCmd ==
    /\ cmdReader
    /\ cmdPipe # <<>>
    /\ \E n \in 1..Len(cmdPipe) : cmdPipe' = SubSeq(cmdPipe, n + 1, Len(cmdPipe))
    /\ UNCHANGED <<hostVars, ctorVars, focusVars, lineVars, toggleKeys, cmdReader, cmdFds, lastKey>>

(* --------------------------- host handlers ---------------------------- *)

\* activate (137-142), one critical section.
activate(c) ==
    /\ activeIC' = c
    /\ lastSet' = c
    /\ lostSince' = {}
    /\ UNCHANGED <<hostVars, ctorVars, lineVars, cmdVars>>

\* deactivate (144-151), one critical section.
deactivate(c) ==
    /\ activeIC' = DeactivateTarget(activeIC, c)
    /\ lostSince' = lostSince \cup {c}
    /\ UNCHANGED <<hostVars, ctorVars, lastSet, lineVars, cmdVars>>

\* keyEvent (155-178) for context c and key k. stays: the daemon still has
\* the command FIFO open when the engine writes to it.
keyEvent(c, k, release, stays) ==
    /\ LET o    == KeyOutcome(k, release, toggleKeys, cmdReader, stays, cmdPipe)
           gone == \E i \in 1..Len(o.sends) : o.sends[i].opened /\ ~stays
       IN  /\ activeIC' = IF o.setTarget THEN c ELSE activeIC
           /\ lastKey' = [key |-> k, release |-> release, reader |-> cmdReader,
                          stays |-> stays, accepted |-> o.accepted,
                          sends |-> [i \in 1..Len(o.sends) |-> SendView(o.sends[i])]]
           /\ cmdFds' = cmdFds + FdsAfter(o.sends)
           /\ cmdReader' = (cmdReader /\ ~gone)
           /\ cmdPipe' = IF gone /\ cmdFds' = 0 THEN <<>>
                         ELSE PipeAfter(o.sends, cmdPipe)
    /\ lastSet' = IF release THEN lastSet ELSE c
    /\ lostSince' = IF release THEN lostSince ELSE {}
    /\ UNCHANGED <<hostVars, ctorVars, lineVars, toggleKeys>>

\* The three handlers as the event loop dispatches them: one handler at a
\* time, so never inside onCommitReadable.
Activate(c) == LoopFree /\ activate(c)

Deactivate(c) == LoopFree /\ deactivate(c)

KeyEvent(c, k, release, stays) == LoopFree /\ keyEvent(c, k, release, stays)

KeyPress(c, k) ==
    \E stays \in (IF cmdReader THEN BOOLEAN ELSE {TRUE}) :
        KeyEvent(c, k, FALSE, stays)

KeyRelease(c, k) == KeyEvent(c, k, TRUE, TRUE)

\* A key press handled on a thread of its own.
KeyPressThread(c, k) ==
    \E stays \in (IF cmdReader THEN BOOLEAN ELSE {TRUE}) :
        keyEvent(c, k, FALSE, stays)

(* --------------------------- ensureFifo (91-103) ---------------------- *)

\* kCmdFifo and kCommitFifo.
Paths == {"cmd", "commit"}

\* What can stand at a path: nothing, a FIFO, a regular file, a directory.
Kinds == {"none", "fifo", "file", "dir"}

\* Where ensureFifo goes after ::stat: stat fails on a missing entry.
AfterStat(kind) ==
    IF kind # "none"
    THEN IF kind = "fifo" THEN "return" ELSE "unlink"
    ELSE "mkfifo"

\* The entry left by ::unlink(path): a directory is never removed (EISDIR),
\* another entry is unless the directory holding it forbids it.
AfterUnlink(kind, permitted) ==
    IF kind \in {"file", "fifo"} /\ permitted THEN "none" ELSE kind

\* ::mkfifo(path, 0600): EEXIST when anything stands at the path, else the
\* FIFO is created unless the call fails for another reason (EACCES, ...).
Mkfifo(kind, fails) ==
    IF kind # "none" THEN [ok |-> FALSE, errno |-> "EEXIST", kind |-> kind]
    ELSE IF fails THEN [ok |-> FALSE, errno |-> "EACCES", kind |-> kind]
    ELSE [ok |-> TRUE, errno |-> "", kind |-> "fifo"]

\* The value ensureFifo returns after ::mkfifo (lines 99-102).
EnsureResult(m) == m.ok \/ m.errno = "EEXIST"

NoPath == "none"

\* The observation of an ensureFifo call at its start.
StartObs(p) == [path |-> p, prevOk |-> okSince[p], kind0 |-> fs[p],
                raced |-> FALSE, unlinks |-> 0, mkfifos |-> 0,
                errno |-> ""]

NoEnsure == [path |-> NoPath, prevOk |-> FALSE, kind0 |-> "none",
             raced |-> FALSE, unlinks |-> 0, mkfifos |-> 0, errno |-> "",
             result |-> FALSE, kind |-> "none"]

\* The observation of ensureFifo(kCommitFifo) creating the FIFO where
\* nothing stood.
CreatedObs == [path |-> "commit", prevOk |-> FALSE, kind0 |-> "none",
               raced |-> FALSE, unlinks |-> 0, mkfifos |-> 1, errno |-> ""]

\* ensureFifo returns r to the constructor (108-110): a failure throws, a
\* success goes on to the next ensureFifo or to loadHotkeys.
EnsureReturns(r, obs, kindNow) ==
    /\ lastEnsure' = obs @@ [result |-> r, kind |-> kindNow]
    /\ okSince' = [okSince EXCEPT ![ePath] = r]
    /\ IF ~r
       THEN /\ pcC' = "failed"
            /\ ePath' = NoPath
            /\ UNCHANGED <<ePc, eObs>>
       ELSE IF ePath = "cmd"
       THEN /\ ePath' = "commit"
            /\ ePc' = "stat"
            /\ eObs' = StartObs("commit")
            /\ UNCHANGED pcC
       ELSE /\ pcC' = "load"
            /\ ePath' = NoPath
            /\ UNCHANGED <<ePc, eObs>>

\* ASRNativeEngineFactory::create (250-252): the constructor starts with
\* ensureFifo(kCmdFifo).
Create ==
    /\ pcC \in {"none", "failed", "destroyed"}
    /\ commitFds < MaxFds
    /\ pcC' = "ensure"
    /\ ePath' = "cmd"
    /\ ePc' = "stat"
    /\ eObs' = StartObs("cmd")
    /\ UNCHANGED <<hostVars, focusVars, lineVars, cmdVars, fs, lastEnsure, okSince,
                   commitFd>>

\* ::stat(path, &st) and the S_ISFIFO test.
EnsureStat ==
    /\ pcC = "ensure"
    /\ ePc = "stat"
    /\ LET obs == [eObs EXCEPT !.kind0 = fs[ePath]]
       IN  IF AfterStat(fs[ePath]) = "return"
           THEN EnsureReturns(TRUE, obs, fs[ePath])
           ELSE /\ ePc' = AfterStat(fs[ePath])
                /\ eObs' = obs
                /\ UNCHANGED <<pcC, ePath, lastEnsure, okSince>>
    /\ UNCHANGED <<hostVars, focusVars, lineVars, cmdVars, fs, commitFd>>

\* ::unlink(path); its result is not looked at.
EnsureUnlink ==
    /\ pcC = "ensure"
    /\ ePc = "unlink"
    /\ \E permitted \in BOOLEAN :
          fs' = [fs EXCEPT ![ePath] = AfterUnlink(fs[ePath], permitted)]
    /\ ePc' = "mkfifo"
    /\ eObs' = [eObs EXCEPT !.unlinks = @ + 1]
    /\ UNCHANGED <<hostVars, focusVars, lineVars, cmdVars, pcC, ePath, lastEnsure,
                   okSince, commitFd>>

\* ::mkfifo(path, 0600) == 0 || errno == EEXIST, and the return.
EnsureMkfifo ==
    /\ pcC = "ensure"
    /\ ePc = "mkfifo"
    /\ \E fails \in BOOLEAN :
          LET m == Mkfifo(fs[ePath], fails)
          IN  /\ fs' = [fs EXCEPT ![ePath] = m.kind]
              /\ EnsureReturns(EnsureResult(m),
                               [eObs EXCEPT !.mkfifos = @ + 1, !.errno = m.errno],
                               m.kind)
    /\ UNCHANGED <<hostVars, focusVars, lineVars, cmdVars, commitFd>>

\* toggleKeys_ = loadHotkeys() (111).
CtorLoad ==
    /\ pcC = "load"
    /\ toggleKeys' = loadHotkeys(conf)
    /\ pcC' = "open"
    /\ UNCHANGED <<hostVars, focusVars, lineVars, cmdReader, cmdPipe, cmdFds,
                   lastKey, fs, ePath, ePc, eObs, lastEnsure, okSince,
                   commitFd>>

\* ::open(kCommitFifo, O_RDWR | O_NONBLOCK): a directory or a missing entry
\* cannot be opened for writing, and any open can fail (EACCES, EMFILE).
OpenCommitFifo(kind, fails) == ~fails /\ kind \notin {"none", "dir"}

\* commitFd_ = ::open(...) (113-116): a failure throws with no descriptor
\* open.
CtorOpen ==
    /\ pcC = "open"
    /\ \E fails \in BOOLEAN :
          IF OpenCommitFifo(fs["commit"], fails)
          THEN /\ pcC' = "register"
               /\ commitFd' = TRUE
               /\ commitFds' = commitFds + 1
          ELSE /\ pcC' = "failed"
               /\ commitFd' = FALSE
               /\ UNCHANGED commitFds
    /\ UNCHANGED <<commitEvent, conf, commitWriter, resumed, focusVars, lineVars,
                   cmdVars, fs, ePath, ePc, eObs, lastEnsure, okSince>>

\* Mutant of RegisterThrows: the constructor closes the descriptor before
\* the exception leaves it.
RegisterThrowsClosing(fds) == fds - 1

\* What an exception leaving the constructor after the open does to the
\* descriptors of the process: the destructor of an object whose
\* constructor throws is not run, the members are destroyed, and the int
\* commitFd_ closes nothing.
RegisterThrows(fds) == fds

\* commitEvent_ = addIOEvent(...) (122-125) and the log line (127-128).
\* addIOEvent throws when the event source cannot be added, and either can
\* throw std::bad_alloc.
CtorRegister ==
    /\ pcC = "register"
    /\ \E throws \in BOOLEAN :
          IF throws
          THEN /\ pcC' = "failed"
               /\ commitFd' = FALSE
               /\ commitEvent' = FALSE
               /\ commitFds' = RegisterThrows(commitFds)
          ELSE /\ pcC' = "running"
               /\ commitEvent' = TRUE
               /\ UNCHANGED <<commitFd, commitFds>>
    /\ UNCHANGED <<conf, commitWriter, resumed, focusVars, lineVars, cmdVars, fs, ePath,
                   ePc, eObs, lastEnsure, okSince>>

\* ~ASRNativeEngine (131-135): close(commitFd_) when it is not negative,
\* then the members are destroyed, commitEvent_ among them.
Destroy ==
    /\ pcC = "running"
    /\ pcC' = "destroyed"
    /\ commitFds' = IF commitFd THEN commitFds - 1 ELSE commitFds
    /\ commitFd' = FALSE
    /\ commitEvent' = FALSE
    /\ UNCHANGED <<conf, commitWriter, resumed, focusVars, lineVars, cmdVars, fs, ePath,
                   ePc, eObs, lastEnsure, okSince>>

\* Another process puts an entry of kind k at path p, or removes it.
OtherProcess(p, k) ==
    /\ k # fs[p]
    /\ fs' = [fs EXCEPT ![p] = k]
    /\ okSince' = [okSince EXCEPT ![p] = FALSE]
    /\ eObs' = IF pcC = "ensure" /\ ePath = p
               THEN [eObs EXCEPT !.raced = TRUE] ELSE eObs
    /\ UNCHANGED <<hostVars, focusVars, lineVars, cmdVars, pcC, ePath, ePc, lastEnsure,
                   commitFd>>

(* --------------------------- specifications --------------------------- *)

\* The shortcut tables construction can leave in toggleKeys_: the defaults,
\* or the valid descriptors of hotkeys.conf.
ToggleTables == {defaultHotkeys, <<KeyF9>>}

\* Keys the host delivers.
PressedKeys == {KeyShiftF8, KeyShiftF8Num, KeyF8, KeyCtrlAltV, KeyF9, KeyA}

\* Keys the host delivers while the text path is explored.
LineKeys == {KeyF8}

NoKey == [key |-> KeyA, release |-> TRUE, reader |-> FALSE, stays |-> TRUE,
          accepted |-> FALSE, sends |-> <<>>]

\* A line of hotkeys.conf that names no key: "F 8".
StrMalformed == <<70, SP, 56>>

\* Lines of hotkeys.conf: empty, blank, a descriptor, a descriptor between
\* blanks, two comments, a malformed descriptor, a descriptor with modifier.
ConfLines == {<<>>, <<SP>>, StrF8, <<SP>> \o StrF9 \o <<SP>>,
              <<HASH>> \o StrF8, <<SP, HASH>>, StrMalformed, StrShiftF8}

\* The files of up to MaxLines lines.
Files == UNION {[1..n -> ConfLines] : n \in 0..MaxLines}

\* The environments of loadHotkeys.
Configs == [xdg : EnvVals, home : EnvVals, at : SUBSET Locs, lines : Files]

\* No variable set, no file.
NoConf == [xdg |-> "unset", home |-> "unset", at |-> {}, lines |-> <<>>]

\* $HOME set, hotkeys.conf holding the line " F9 ".
ConfF9 == [xdg |-> "unset", home |-> "set", at |-> {"home"},
           lines |-> << <<SP>> \o StrF9 \o <<SP>> >>]

KnownConfigs == {NoConf, ConfF9}

\* The engine after construction, before any event, with shortcut table t.
Constructed(t) ==
    /\ conf \in {cf \in KnownConfigs : loadHotkeys(cf) = t}
    /\ activeIC = NullIC
    /\ lastSet = NullIC
    /\ lostSince = {}
    /\ pending = <<>>
    /\ commitFifo = <<>>
    /\ pcR = "idle"
    /\ rdLine = <<>>
    /\ rdIC = NullIC
    /\ commits = <<>>
    /\ dropped = <<>>
    /\ received = <<>>
    /\ lineNo = 0
    /\ joined = FALSE
    /\ noTarget = FALSE
    /\ toggleKeys = t
    /\ fs = [p \in Paths |-> "fifo"]
    /\ pcC = "running"
    /\ ePath = NoPath
    /\ ePc = "stat"
    /\ eObs = CreatedObs
    /\ lastEnsure = CreatedObs @@ [result |-> TRUE, kind |-> "fifo"]
    /\ okSince = [p \in Paths |-> TRUE]
    /\ commitFd = TRUE
    /\ cmdReader = FALSE
    /\ cmdPipe = <<>>
    /\ cmdFds = 0
    /\ lastKey = NoKey
    /\ commitFds = 1
    /\ commitEvent = TRUE
    /\ commitWriter = TRUE
    /\ resumed = FALSE
    /\ readFailed = FALSE

\* No hotkeys.conf: the default table.
Init == Constructed(defaultHotkeys)

\* Either table.
InitKeys == \E t \in ToggleTables : Constructed(t)

\* The text path: the daemon writes recognised text, the host reports focus
\* changes and keys; no reader is attached to the command FIFO.
Next ==
    \/ CommitReadable
    \/ ReadData
    \/ ReadNoData
    \/ ReadError
    \/ SplitLine
    \/ CommitString
    \/ HandlerReturn
    \/ DaemonWrite
    \/ \E c \in Contexts : Activate(c)
    \/ \E c \in Contexts : Deactivate(c)
    \/ \E c \in Contexts, k \in LineKeys : KeyPress(c, k)
    \/ \E c \in Contexts, k \in LineKeys : KeyRelease(c, k)

Spec == Init /\ [][Next]_vars

\* The command path: the host reports focus changes and keys, the daemon
\* attaches to, reads from and detaches from the command FIFO; the daemon
\* writes no text.
NextKeys ==
    \/ \E c \in Contexts : Activate(c)
    \/ \E c \in Contexts : Deactivate(c)
    \/ \E c \in Contexts, k \in PressedKeys : KeyPress(c, k)
    \/ \E c \in Contexts, k \in PressedKeys : KeyRelease(c, k)
    \/ DaemonAttach
    \/ DaemonDetach
    \/ DaemonReadCmd

SpecKeys == InitKeys /\ [][NextKeys]_vars

\* Before the first construction: anything may stand at the two paths.
InitFifo ==
    /\ activeIC = NullIC
    /\ lastSet = NullIC
    /\ lostSince = {}
    /\ pending = <<>>
    /\ commitFifo = <<>>
    /\ pcR = "idle"
    /\ rdLine = <<>>
    /\ rdIC = NullIC
    /\ commits = <<>>
    /\ dropped = <<>>
    /\ received = <<>>
    /\ lineNo = 0
    /\ joined = FALSE
    /\ noTarget = FALSE
    /\ toggleKeys = <<>>
    /\ conf \in KnownConfigs
    /\ cmdReader = FALSE
    /\ cmdPipe = <<>>
    /\ cmdFds = 0
    /\ lastKey = NoKey
    /\ fs \in [Paths -> Kinds]
    /\ pcC = "none"
    /\ ePath = NoPath
    /\ ePc = "stat"
    /\ eObs = NoEnsure
    /\ lastEnsure = NoEnsure
    /\ okSince = [p \in Paths |-> FALSE]
    /\ commitFd = FALSE
    /\ commitFds = 0
    /\ commitEvent = FALSE
    /\ commitWriter = FALSE
    /\ resumed = FALSE
    /\ readFailed = FALSE

\* Construction and destruction of the engine, with other processes
\* changing what stands at the two paths at any moment.
NextFifo ==
    \/ Create
    \/ EnsureStat
    \/ EnsureUnlink
    \/ EnsureMkfifo
    \/ CtorLoad
    \/ CtorOpen
    \/ CtorRegister
    \/ Destroy
    \/ \E p \in Paths, k \in Kinds : OtherProcess(p, k)

SpecFifo == InitFifo /\ [][NextFifo]_vars

\* The context that gains and loses the focus while the lines are explored.
LineContexts == {1}

\* The host dispatching activate, deactivate and keyEvent from threads other
\* than the event loop's: each runs at any moment of onCommitReadable, its
\* critical section on mutex_ being one step.
NextThreads ==
    \/ CommitReadable
    \/ ReadData
    \/ ReadNoData
    \/ ReadError
    \/ SplitLine
    \/ CommitString
    \/ HandlerReturn
    \/ DaemonWrite
    \/ \E c \in Contexts : activate(c)
    \/ \E c \in Contexts : deactivate(c)
    \/ \E c \in Contexts, k \in LineKeys : KeyPressThread(c, k)

SpecThreads == Init /\ [][NextThreads]_vars

\* The text path with a daemon that comes and goes.
NextLive ==
    \/ CommitReadable
    \/ ReadData
    \/ ReadNoData
    \/ ReadError
    \/ SplitLine
    \/ CommitString
    \/ HandlerReturn
    \/ DaemonWriteLive
    \/ DaemonDetachCommit
    \/ DaemonAttachCommit
    \/ \E c \in LineContexts : Activate(c)
    \/ \E c \in LineContexts : Deactivate(c)

\* The event loop polls commitFd_ level-triggered: while the FIFO holds
\* bytes and no handler runs, the callback is invoked. A handler that was
\* invoked runs on: each read returns, each step of the split loop is taken.
\* A read error does not persist: a read that can return data time and again
\* does so in the end.
FairLive ==
    /\ WF_vars(commitFifo # <<>> /\ CommitReadable)
    /\ WF_vars(ReadData \/ ReadNoData \/ ReadError)
    /\ SF_vars(ReadData)
    /\ WF_vars(SplitLine)
    /\ WF_vars(CommitString)
    /\ WF_vars(HandlerReturn)

SpecLive == Init /\ [][NextLive]_vars /\ FairLive

\* The lines: the daemon writes a text, the handler reads and splits it,
\* the host reports focus changes; no key is pressed.
NextLines ==
    \/ CommitReadable
    \/ ReadData
    \/ ReadNoData
    \/ ReadError
    \/ SplitLine
    \/ CommitString
    \/ HandlerReturn
    \/ DaemonWriteText
    \/ \E c \in LineContexts : Activate(c)
    \/ \E c \in LineContexts : Deactivate(c)

SpecLines == Init /\ [][NextLines]_vars

\* The constructor at loadHotkeys, both FIFOs ensured, in any environment.
InitLoad ==
    /\ activeIC = NullIC
    /\ lastSet = NullIC
    /\ lostSince = {}
    /\ pending = <<>>
    /\ commitFifo = <<>>
    /\ pcR = "idle"
    /\ rdLine = <<>>
    /\ rdIC = NullIC
    /\ commits = <<>>
    /\ dropped = <<>>
    /\ received = <<>>
    /\ lineNo = 0
    /\ joined = FALSE
    /\ noTarget = FALSE
    /\ readFailed = FALSE
    /\ toggleKeys = <<>>
    /\ conf \in Configs
    /\ cmdReader = FALSE
    /\ cmdPipe = <<>>
    /\ cmdFds = 0
    /\ lastKey = NoKey
    /\ fs = [p \in Paths |-> "fifo"]
    /\ pcC = "load"
    /\ ePath = NoPath
    /\ ePc = "stat"
    /\ eObs = CreatedObs
    /\ lastEnsure = CreatedObs @@ [result |-> TRUE, kind |-> "fifo"]
    /\ okSince = [p \in Paths |-> TRUE]
    /\ commitFd = FALSE
    /\ commitFds = 0
    /\ commitEvent = FALSE
    /\ commitWriter = FALSE
    /\ resumed = FALSE

\* The rest of the constructor, and the destructor.
NextLoad ==
    \/ CtorLoad
    \/ CtorOpen
    \/ CtorRegister
    \/ Destroy

SpecLoad == InitLoad /\ [][NextLoad]_vars

(* ------------------ the text stream, split all at once ----------------- *)

\* The offsets of the newlines of a byte string.
NLIdx(s) == {i \in 1..Len(s) : s[i] = NL}

\* The offset of the k-th newline of s; 0 for k = 0.
KthNL(s, k) ==
    IF k = 0 THEN 0
    ELSE CHOOSE i \in NLIdx(s) : Cardinality({j \in NLIdx(s) : j < i}) = k - 1

\* One trailing carriage return removed.
WithoutCR(l) ==
    IF Len(l) > 0 /\ l[Len(l)] = CR THEN [i \in 1..(Len(l) - 1) |-> l[i]] ELSE l

\* The complete lines of s: what stands between consecutive newlines,
\* without one trailing carriage return. What follows the last newline is
\* no line.
AllLines(s) ==
    [k \in 1..Cardinality(NLIdx(s)) |->
        WithoutCR(SubSeq(s, KthNL(s, k - 1) + 1, KthNL(s, k) - 1))]

NonEmpty(l) == l # <<>>

\* The lines to commit: the complete lines that are not empty.
GoldLines(s) == SelectSeq(AllLines(s), NonEmpty)

\* What follows the k-th newline of s.
AfterNL(s, k) == SubSeq(s, KthNL(s, k) + 1, Len(s))

\* What follows the last newline of s.
GoldTail(s) == AfterNL(s, Cardinality(NLIdx(s)))

Texts(cs) == [i \in 1..Len(cs) |-> cs[i].text]

(* ------------------------------- claims ------------------------------- *)

\* C1: with a target active whenever the split loop ran, once the handler has
\* returned the committed texts are exactly the non-empty complete lines of
\* the bytes read so far, split all at once on newline with one trailing
\* carriage return removed: same lines, same order, each once, however the
\* bytes were cut into reads and handler invocations.
C1_FragmentationTransparent ==
    (pcR = "idle" /\ ~noTarget) => Texts(commits) = GoldLines(received)

\* C1 witness: two different lines were committed, a read having appended
\* to a partial line, and everything written has been read.
C1_Witness ==
    /\ pcR = "idle"
    /\ ~noTarget
    /\ joined
    /\ commitFifo = <<>>
    /\ Len(commits) = 2
    /\ commits[1].text # commits[2].text

\* C2: when the handler has returned, pending_ holds no newline and is
\* exactly what was read after the last newline; and whatever is committed
\* is a complete line of the bytes read, its newline included in them.
C2_PartialLineKept ==
    /\ pcR = "idle" => (NLIdx(pending) = {} /\ pending = GoldTail(received))
    /\ \A i \in 1..Len(commits) :
          /\ commits[i].ord <= Cardinality(NLIdx(received))
          /\ commits[i].text = AllLines(received)[commits[i].ord]

\* C2 witness: the handler returned with a partial line buffered behind a
\* committed line that was itself completed by a later read.
C2_Witness ==
    /\ pcR = "idle"
    /\ joined
    /\ commits # <<>>
    /\ pending # <<>>

\* C3: a line processed while no target is active is gone: it was a complete
\* line of the bytes read, pending_ holds only what follows the lines
\* extracted so far, and no commit ever carries the ordinal of a dropped line.
C3_DroppedForGood ==
    /\ pending = AfterNL(received, lineNo)
    /\ \A i \in 1..Len(dropped) :
          /\ dropped[i].ord <= lineNo
          /\ dropped[i].text = AllLines(received)[dropped[i].ord]
          /\ \A j \in 1..Len(commits) : commits[j].ord # dropped[i].ord

\* C3 witness: a line was dropped, then a key press made a context the
\* target and a later line was committed to it.
C3_Witness ==
    /\ pcR = "idle"
    /\ dropped # <<>>
    /\ commits # <<>>
    /\ ~lastKey.release
    /\ commits[Len(commits)].ord > dropped[1].ord
    /\ activeIC # NullIC

\* C4: the active target is the context of the last activate or key press,
\* or none when a deactivate for that context has arrived since; so a
\* deactivate for any other context leaves the target as it is.
C4_TargetFollowsFocus ==
    activeIC = IF lastSet \in lostSince THEN NullIC ELSE lastSet

\* C4 witness: a key press made context 1 the target, then a deactivate for
\* context 2 arrived and context 1 is still the target.
C4_Witness ==
    /\ ~lastKey.release
    /\ lastSet = 1
    /\ lostSince = {2}
    /\ activeIC = 1

(* ------------------------ keys, as the user sees them ------------------ *)

\* The modifiers a shortcut is made of; NumLock and CapsLock are not.
RealMods(k) == k.states \ {"Mod2", "Lock"}

\* The physical combination Shift+F8, the command-mode shortcut.
IsCommandKey(k) == k.sym = "F8" /\ RealMods(k) = {"Shift"}

\* Key symbols up to letter case.
SameSymbol(a, b) == a = b \/ UpperOf(a) = b \/ a = UpperOf(b)

\* The key is bound to nothing: it is not the command-mode shortcut and no
\* entry of the table has its symbol and its modifiers.
IsUnbound(k, table) ==
    /\ ~IsCommandKey(k)
    /\ \A i \in 1..Len(table) :
          ~(SameSymbol(table[i].sym, k.sym) /\ table[i].states = RealMods(k))

\* A command token: bytes, a newline at the end and nowhere else.
IsToken(t) == Len(t) > 1 /\ NLIdx(t) = {Len(t)}

\* C5: after a key press: the command-mode shortcut has sent exactly
\* "command\n", once, and the key is accepted; an unbound key has sent
\* nothing and is not accepted; and a key that sent a command is accepted
\* whether or not the FIFO could be opened or written, a key that sent none
\* is not.
C5_KeyDispatch ==
    ~lastKey.release =>
        /\ IsCommandKey(lastKey.key) =>
              /\ lastKey.accepted
              /\ Len(lastKey.sends) = 1
              /\ lastKey.sends[1].cmd = CmdCommand
        /\ IsUnbound(lastKey.key, toggleKeys) =>
              (~lastKey.accepted /\ lastKey.sends = <<>>)
        /\ lastKey.accepted <=> lastKey.sends # <<>>

\* C5 witness: Shift+F8 was pressed with NumLock on and no reader on the
\* command FIFO: "command\n" was tried, could not be delivered, and the key
\* is accepted.
C5_Witness ==
    /\ ~lastKey.release
    /\ lastKey.key = KeyShiftF8Num
    /\ lastKey.accepted
    /\ Len(lastKey.sends) = 1
    /\ lastKey.sends[1].cmd = CmdCommand
    /\ ~lastKey.sends[1].opened

\* C6: a key release changes nothing: the target, pending_ and the command
\* FIFO stay as they are, no descriptor is opened, nothing is sent and the
\* key is not accepted, whatever the key and the context.
C6_ReleaseIgnored ==
    [][\A c \in Contexts, k \in PressedKeys :
          KeyRelease(c, k) =>
              /\ UNCHANGED <<activeIC, pending, cmdPipe, cmdReader, cmdFds>>
              /\ ~lastKey'.accepted
              /\ lastKey'.sends = <<>>]_vars

\* C6 witness: the command-mode shortcut was released while a reader is
\* attached and no context is the target (so the context of the release is
\* not the target): nothing was sent.
C6_Witness ==
    /\ lastKey.release
    /\ IsCommandKey(lastKey.key)
    /\ lastKey.reader
    /\ cmdReader
    /\ activeIC = NullIC
    /\ lostSince # {}
    /\ cmdPipe = <<>>

\* C7: no send leaves a command FIFO descriptor open, whatever its outcome;
\* a send with no reader attached fails at the open and issues no write;
\* no send opens or writes more than once.
C7_SendIsScoped ==
    /\ cmdFds = 0
    /\ \A i \in 1..Len(lastKey.sends) :
          /\ lastKey.sends[i].writes <= 1
          /\ ~lastKey.reader =>
                (~lastKey.sends[i].opened /\ lastKey.sends[i].writes = 0)
          /\ ~lastKey.sends[i].opened => lastKey.sends[i].writes = 0

\* C7 witness: a bound key was pressed with no reader attached; the send
\* returned without a write and no descriptor is open.
C7_Witness ==
    /\ ~lastKey.release
    /\ ~lastKey.reader
    /\ Len(lastKey.sends) = 1
    /\ ~lastKey.sends[1].opened
    /\ lastKey.sends[1].writes = 0
    /\ cmdFds = 0

C9_SuccessMeansFifo ==
    lastEnsure.path # NoPath =>
        /\ lastEnsure.result => lastEnsure.kind = "fifo"
        /\ (lastEnsure.mkfifos = 1 /\ lastEnsure.errno \notin {"", "EEXIST"})
              => ~lastEnsure.result

\* C10: a call that follows a successful call on the same path, the entry
\* untouched by other processes since, removes nothing, creates nothing and
\* leaves a FIFO; and a call that finds a regular file, undisturbed, unlinks
\* once and leaves a FIFO.
C10_Idempotent ==
    (lastEnsure.path # NoPath /\ ~lastEnsure.raced) =>
        /\ lastEnsure.prevOk =>
              /\ lastEnsure.unlinks = 0
              /\ lastEnsure.mkfifos = 0
              /\ lastEnsure.result
              /\ lastEnsure.kind = "fifo"
        /\ (lastEnsure.kind0 = "file" /\ lastEnsure.result) =>
              (lastEnsure.unlinks = 1 /\ lastEnsure.kind = "fifo")

(* ---------------------- the shortcut table, as read -------------------- *)

\* The descriptors that name a key.
Descriptors == {StrF8, StrF9, StrShiftF8, StrCtrlAltV, StrCtrlAltR}

\* The line is the descriptor d with white space before and after it.
IsPadded(l, d) ==
    \E i \in 0..Len(l) :
        /\ i + Len(d) <= Len(l)
        /\ SubSeq(l, i + 1, i + Len(d)) = d
        /\ \A k \in (1..i) \cup ((i + Len(d) + 1)..Len(l)) : IsSpace(l[k])

\* The line holds a valid descriptor.
ValidLine(l) == \E d \in Descriptors : IsPadded(l, d)

\* The binding a valid line stands for.
BindingOf(l) == ParseKey(CHOOSE d \in Descriptors : IsPadded(l, d))

\* The configuration file is found and can be read.
Usable(cf) ==
    \/ cf.xdg = "set" /\ "xdg" \in cf.at
    \/ cf.xdg # "set" /\ cf.home = "set" /\ "home" \in cf.at

\* The table the environment calls for.
GoldTable(cf) ==
    LET valid == SelectSeq(cf.lines, ValidLine)
    IN  IF Usable(cf) /\ valid # <<>>
        THEN [i \in 1..Len(valid) |-> BindingOf(valid[i])]
        ELSE defaultHotkeys

\* C11: once loaded, the shortcut table is not empty; it is the bindings of
\* the valid descriptor lines of the file, in file order (blank lines,
\* comment lines and malformed descriptors left out), when the file is found,
\* can be read and has a valid line; otherwise it is the default set.
C11_TableFromFile ==
    pcC \in {"open", "register", "running"} =>
        /\ toggleKeys # <<>>
        /\ toggleKeys = GoldTable(conf)

\* C11 witness: a file of three lines, a malformed descriptor between two
\* different valid ones, was loaded into a table of two keys.
C11_Witness ==
    /\ pcC = "open"
    /\ Len(conf.lines) = 3
    /\ conf.lines[2] = StrMalformed
    /\ Len(toggleKeys) = 2
    /\ toggleKeys[1] # toggleKeys[2]

\* The physical combination is one of the four of the default set.
IsDefaultCombo(k) ==
    \E i \in 1..Len(defaultHotkeys) :
        /\ SameSymbol(defaultHotkeys[i].sym, k.sym)
        /\ defaultHotkeys[i].states = RealMods(k)

\* C12 as stated: with the default table in effect, a press of any of its
\* four combinations sends "toggle\n".
C12_DefaultsToggle ==
    (~lastKey.release /\ toggleKeys = defaultHotkeys
                      /\ IsDefaultCombo(lastKey.key)) =>
        /\ Len(lastKey.sends) = 1
        /\ lastKey.sends[1].cmd = CmdToggle

(* ------------------------- lines, one at a time ------------------------ *)

\* The bytes of the k-th line of s, between its newlines, as written.
RawLine(s, k) == SubSeq(s, KthNL(s, k - 1) + 1, KthNL(s, k) - 1)

\* C13: what is committed for a line is the line as written, less its last
\* byte when that byte is a carriage return: one carriage return at the end
\* is removed, and every other byte, carriage returns included, is kept.
C13_OneCRStripped ==
    \A i \in 1..Len(commits) :
        LET raw == RawLine(received, commits[i].ord)
        IN  IF raw # <<>> /\ raw[Len(raw)] = CR
            THEN raw = commits[i].text \o <<CR>>
            ELSE raw = commits[i].text

\* C13 witness: the line "\ra\r\r" was committed as "\ra\r".
C13_Witness ==
    /\ pcR = "idle"
    /\ Len(commits) = 1
    /\ commits[1].text = <<CR, 97, CR>>
    /\ received = <<CR, 97, CR, CR, NL>>

\* The lines that have gone through commitLine.
LinesDone == lineNo - (IF pcR = "commit" THEN 1 ELSE 0)

\* C14: no commit carries an empty text; commits are in the order of their
\* lines; and, a target being active at every split, a line that went
\* through commitLine was committed exactly when it is not empty once its
\* carriage return is removed.
C14_NoEmptyCommit ==
    /\ \A i \in 1..Len(commits) : commits[i].text # <<>>
    /\ \A i, j \in 1..Len(commits) : i < j => commits[i].ord < commits[j].ord
    /\ ~noTarget =>
          \A k \in 1..LinesDone :
              (AllLines(received)[k] # <<>>)
                  <=> (\E i \in 1..Len(commits) : commits[i].ord = k)

\* C14 witness: "a\n\nb\n" was read and "a", then "b" were committed.
C14_Witness ==
    /\ pcR = "idle"
    /\ ~noTarget
    /\ received = <<97, NL, NL, 98, NL>>
    /\ Texts(commits) = << <<97>>, <<98>> >>

\* C19: a read error loses nothing and unregisters nothing: in an invocation
\* whose drain ended on an error, pending_ is still everything read after
\* the lines extracted so far; when the split loop ends, whether the drain
\* ended on an error or on a read that found nothing, every complete line
\* read has gone through commitLine; the descriptor stays open and the event
\* source registered, and the handler can be invoked again once it returned.
C19_ErrorEndsDrainOnly ==
    /\ commitEvent /\ commitFd
    /\ readFailed => pending = AfterNL(received, lineNo)
    /\ (pcR = "split" /\ FindNL(pending) = 0) =>
          /\ lineNo = Cardinality(NLIdx(received))
          /\ ~noTarget => Texts(commits) = GoldLines(received)
    /\ pcR = "idle" => ENABLED CommitReadable

\* C19 witness: a read returned a line, the next read of the same drain
\* failed with bytes still unread in the FIFO, and the line is being
\* committed in that invocation.
C19_Witness ==
    /\ readFailed
    /\ pcR = "commit"
    /\ rdLine = <<97>>
    /\ commitFifo # <<>>
    /\ received = <<97, NL>>
    /\ commits = <<>>

(* ------------------------- the text-in descriptor ---------------------- *)

\* C15 as stated: whenever no engine is alive or under construction (none
\* was built, construction failed, or the engine was destroyed) the process
\* holds no descriptor of the commit FIFO and no event source is registered;
\* and an engine alive or past the open holds exactly one.
C15_ClosedExactlyOnce ==
    /\ pcC \in {"none", "failed", "destroyed"} =>
          (commitFds = 0 /\ ~commitEvent /\ ~commitFd)
    /\ pcC \in {"register", "running"} => (commitFds = 1 /\ commitFd)
    /\ pcC \in {"ensure", "load", "open"} => (commitFds = 0 /\ ~commitEvent)

(* ------------------------ commits and the target ----------------------- *)

\* C16 as stated: whenever commitString is called, the context it is called
\* on is the active target at that moment.
C16_CommitToActiveTarget ==
    [][CommitString => rdIC = activeIC]_vars

(* --------------------------- the drain loop ---------------------------- *)

\* C17 as stated, for a run that ends: the handler leaves the drain loop
\* whatever the daemon does. Once the loop has read all there was, its next
\* read ends it; nothing the daemon does makes the loop go round again.
C17_DrainEndsWhateverDaemon ==
    [][(pcR = "drain" /\ commitFifo = <<>>) =>
            (pcR' = "drain" => commitFifo' = <<>>)]_vars

(* ---------------------- one command for one key press ------------------- *)

\* The press is matched by the toggle list.
InToggleSet(k, table) == checkKeyList(normalize(k), table)

\* C18: a key press sends at most one command, in one write at most; the
\* command-mode shortcut sends "command\n" and never "toggle\n", also when
\* the toggle list holds Shift+F8; any other press the toggle list matches
\* sends "toggle\n", once, and never "command\n".
C18_OneCommandPerPress ==
    ~lastKey.release =>
        /\ Len(lastKey.sends) <= 1
        /\ \A i \in 1..Len(lastKey.sends) : lastKey.sends[i].writes <= 1
        /\ IsCommandKey(lastKey.key) =>
              \A i \in 1..Len(lastKey.sends) : lastKey.sends[i].cmd # CmdToggle
        /\ (~IsCommandKey(lastKey.key) /\ InToggleSet(lastKey.key, toggleKeys)) =>
              /\ Len(lastKey.sends) = 1
              /\ lastKey.sends[1].cmd = CmdToggle

\* C18 witness: with the default table, which holds Shift+F8, Shift+F8 was
\* pressed while a reader was attached: the FIFO holds "command\n" and
\* nothing else.
C18_Witness ==
    /\ ~lastKey.release
    /\ toggleKeys = defaultHotkeys
    /\ IsCommandKey(lastKey.key)
    /\ InToggleSet(lastKey.key, toggleKeys)
    /\ lastKey.reader
    /\ cmdPipe = CmdCommand

(* --------------------------- lines do arrive --------------------------- *)

\* Everything the daemon has written to the commit FIFO.
Written == received \o commitFifo

\* The daemon has written the k-th line, newline included, and it is not
\* empty once its carriage return is removed.
LineWritten(k) ==
    /\ k <= Cardinality(NLIdx(Written))
    /\ AllLines(Written)[k] # <<>>

\* The k-th line has been committed, with its text.
LineCommitted(k) ==
    \E i \in 1..Len(commits) :
        commits[i].ord = k /\ commits[i].text = AllLines(Written)[k]

\* C20: under the fairness of the event loop and of the handler, a complete
\* non-empty line the daemon has written and the handler has yet to extract
\* is committed in the end, unless there comes a moment with no target:
\* however the line was cut into writes and reads, whether or not the daemon
\* closed the FIFO in the middle of it.
C20_LineEventuallyCommitted ==
    \A k \in 1..MaxLive :
        (LineWritten(k) /\ lineNo < k)
            ~> (LineCommitted(k) \/ activeIC = NullIC)

\* C20 witness: the daemon wrote "a", closed the FIFO, opened it again and
\* wrote "b\n"; a read appended to the partial line; "ab" is committed.
C20_Witness ==
    /\ resumed
    /\ joined
    /\ pcR = "idle"
    /\ received = <<97, 98, NL>>
    /\ Len(commits) = 1
    /\ commits[1].text = <<97, 98>>

====
